---- MODULE Spec2Model ----
(***************************************************************************)
(* The catalog schema of locallibrary (catalog/models.py) as a state       *)
(* machine over its five tables and the many-to-many join table.           *)
(* A state is the content of the database; an action is one ORM operation  *)
(* on one model (create, save, delete, all(), str()), with the effects the *)
(* field declarations give it: primary keys, foreign keys with their       *)
(* on_delete rule, field validation (choices, blank, max_length), defaults *)
(* and Meta.ordering.                                                      *)
(*                                                                         *)
(* Genre, Language and Author rows are carried as their primary key: their *)
(* CharField/DateField columns are read by no relation, default, ordering  *)
(* or method modelled here.  Book.summary, Book.isbn and                   *)
(* BookInstance.imprint are columns with a single representative value.    *)
(***************************************************************************)
EXTENDS Integers, FiniteSets, Sequences, TLC

\* ---- bounds of the model ------------------------------------------------
MaxGenre == 2
MaxLanguage == 1
MaxAuthor == 1
MaxBook == 2
MaxUuid == 2
MaxDate == 2

\* ---- values --------------------------------------------------------------
\* SQL NULL / Python None in a nullable column (keys and dates start at 1).
NULL == 0

GenreIds == 1..MaxGenre
LanguageIds == 1..MaxLanguage
AuthorIds == 1..MaxAuthor
BookIds == 1..MaxBook
\* the values uuid.uuid4 can return
Uuids == 1..MaxUuid
Dates == 1..MaxDate

Titles == {"Dune", "Emma"}
Summaries == {"summary"}
Isbns == {"9780441013593"}
Imprints == {"imprint"}

\* status values a caller may try to write, valid or not
StatusInputs == {"m", "o", "a", "r", "", "x"}

\* One variable per table, a set of rows; Book_genre is the join table of
\* Book.genre.  response is what the last operation was and what it gave
\* back; for a delete it also holds the referencing tables as they were
\* before it.
VARIABLES Genre, Language, Author, Book, Book_genre, BookInstance, response

vars == <<Genre, Language, Author, Book, Book_genre, BookInstance, response>>

\* ---- field declarations --------------------------------------------------
\* (the labels are written here without their accents)
LOAN_STATUS ==
    << <<"m", "Maintenance">>,
       <<"o", "Emprunte">>,
       <<"a", "Disponible">>,
       <<"r", "Reserve">> >>

\* the codes of the choices
StatusCodes == {LOAN_STATUS[i][1] : i \in 1..Len(LOAN_STATUS)}

status_max_length == 1
status_blank == TRUE
\* variant: the default names another choice
status_default_available == "a"
status_default == "m"

\* variant: on_delete=models.CASCADE
Book_author_on_delete_cascade == "CASCADE"
Book_author_on_delete == "SET_NULL"
\* variant: on_delete=models.DO_NOTHING
Book_language_on_delete_nothing == "DO_NOTHING"
Book_language_on_delete == "SET_NULL"
\* variant: on_delete=models.CASCADE
BookInstance_book_on_delete_cascade == "CASCADE"
BookInstance_book_on_delete == "SET_NULL"
\* variant: the join table keeps the rows of a deleted genre or book
Book_genre_on_delete_nothing == "DO_NOTHING"
\* the foreign keys of the join table ManyToManyField creates
Book_genre_on_delete == "CASCADE"

\* variant: no Meta.ordering
BookInstance_Meta_ordering_none == <<>>
BookInstance_Meta_ordering == <<"due_back">>

\* ---- the ORM's reading of the declarations -------------------------------
Pks(table) == {r.id : r \in table}

\* variant: id is not a key
PrimaryKeyFree_unchecked(pk, table) == TRUE

\* primary_key=True / the implicit AutoField: an INSERT whose key is already
\* in the table fails (IntegrityError) and stores nothing.
PrimaryKeyFree(pk, table) == pk \notin Pks(table)

\* variant: the column is a plain integer, not a ForeignKey
ForeignKeyOk_unchecked(ref, pks) == TRUE

\* a foreign key column with null=True holds NULL or the key of a stored row
ForeignKeyOk(ref, pks) == ref = NULL \/ ref \in pks

\* what happens to the rows whose column `field` references the deleted key
OnDelete(policy, rows, field, pk) ==
    CASE policy = "SET_NULL" ->
           {IF r[field] = pk THEN [r EXCEPT ![field] = NULL] ELSE r : r \in rows}
      [] policy = "CASCADE" -> {r \in rows : r[field] # pk}
      [] OTHER -> rows

\* variant: no choices on the field
StatusValid_unchecked(v) == TRUE

\* validation of BookInstance.status: a blank value passes when blank=True,
\* any other value must be one of the choices and fit max_length.
StatusValid(v) ==
    IF v = "" THEN status_blank
    ELSE v \in StatusCodes /\ Len(v) <= status_max_length

\* the value stored for status when the caller supplies none
StatusOrDefault(supplied, v) == IF supplied THEN v ELSE status_default

\* ---- BookInstance.objects.all(): ORDER BY Meta.ordering ------------------
\* NULL sorts before every date on some engines and after on others.
Less(x, y, nullsFirst) ==
    IF x = NULL THEN y # NULL /\ nullsFirst
    ELSE IF y = NULL THEN ~nullsFirst
    ELSE x < y

\* row a sorts strictly before row b under the ordering
Before(a, b, ordering, nullsFirst) ==
    \E i \in 1..Len(ordering) :
        /\ \A j \in 1..(i - 1) : a[ordering[j]] = b[ordering[j]]
        /\ Less(a[ordering[i]], b[ordering[i]], nullsFirst)

InsertRow(row, sorted, ordering, nullsFirst) ==
    LET p == Cardinality({i \in 1..Len(sorted) :
                             ~Before(row, sorted[i], ordering, nullsFirst)})
    IN SubSeq(sorted, 1, p) \o <<row>> \o SubSeq(sorted, p + 1, Len(sorted))

RECURSIVE OrderBy(_, _, _)
OrderBy(scan, ordering, nullsFirst) ==
    IF scan = <<>> THEN <<>>
    ELSE InsertRow(scan[Len(scan)],
                   OrderBy(SubSeq(scan, 1, Len(scan) - 1), ordering, nullsFirst),
                   ordering, nullsFirst)

\* the orders in which the engine may scan a table
RECURSIVE ScanOrders(_)
ScanOrders(table) ==
    IF table = {} THEN {<<>>}
    ELSE UNION {{<<r>> \o s : s \in ScanOrders(table \ {r})} : r \in table}

\* ---- BookInstance.__str__ -------------------------------------------------
\* f"{self.id} ({self.book.title})": self.book is None when the column is
\* NULL, and None has no attribute title.
BookInstance_str(bi) ==
    IF bi.book = NULL
    THEN [ok |-> FALSE, raised |-> "AttributeError"]
    ELSE [ok |-> TRUE,
          text |-> <<bi.id, " (", (CHOOSE b \in Book : b.id = bi.book).title, ")">>]

\* ---- initial state: the empty database -----------------------------------
Init ==
    /\ Genre = {}
    /\ Language = {}
    /\ Author = {}
    /\ Book = {}
    /\ Book_genre = {}
    /\ BookInstance = {}
    /\ response = [op |-> "none"]

\* ---- Genre ----------------------------------------------------------------
CreateGenre(pk) ==
    /\ PrimaryKeyFree(pk, Genre)
    /\ Genre' = Genre \cup {[id |-> pk]}
    /\ response' = [op |-> "create", model |-> "Genre", pk |-> pk]
    /\ UNCHANGED <<Language, Author, Book, Book_genre, BookInstance>>

\* the rows of the join table that reference the genre go with it
DeleteGenre(pk) ==
    /\ pk \in Pks(Genre)
    /\ Genre' = {g \in Genre : g.id # pk}
    /\ Book_genre' = OnDelete(Book_genre_on_delete, Book_genre, "genre_id", pk)
    /\ response' = [op |-> "delete", model |-> "Genre", pk |-> pk,
                    before |-> Book, links |-> Book_genre]
    /\ UNCHANGED <<Language, Author, Book, BookInstance>>

\* ---- Language -------------------------------------------------------------
CreateLanguage(pk) ==
    /\ PrimaryKeyFree(pk, Language)
    /\ Language' = Language \cup {[id |-> pk]}
    /\ response' = [op |-> "create", model |-> "Language", pk |-> pk]
    /\ UNCHANGED <<Genre, Author, Book, Book_genre, BookInstance>>

DeleteLanguage(pk) ==
    /\ pk \in Pks(Language)
    /\ Language' = {l \in Language : l.id # pk}
    /\ Book' = OnDelete(Book_language_on_delete, Book, "language", pk)
    /\ response' = [op |-> "delete", model |-> "Language", pk |-> pk,
                    before |-> Book, links |-> Book_genre]
    /\ UNCHANGED <<Genre, Author, Book_genre, BookInstance>>

\* ---- Author ---------------------------------------------------------------
CreateAuthor(pk) ==
    /\ PrimaryKeyFree(pk, Author)
    /\ Author' = Author \cup {[id |-> pk]}
    /\ response' = [op |-> "create", model |-> "Author", pk |-> pk]
    /\ UNCHANGED <<Genre, Language, Book, Book_genre, BookInstance>>

DeleteAuthor(pk) ==
    /\ pk \in Pks(Author)
    /\ Author' = {a \in Author : a.id # pk}
    /\ Book' = OnDelete(Book_author_on_delete, Book, "author", pk)
    /\ response' = [op |-> "delete", model |-> "Author", pk |-> pk,
                    before |-> Book, links |-> Book_genre]
    /\ UNCHANGED <<Genre, Language, Book_genre, BookInstance>>

\* ---- Book -----------------------------------------------------------------
\* a new book has no genre yet: the genre set is filled once the row exists
CreateBook(pk, title, author, summary, isbn, language) ==
    /\ PrimaryKeyFree(pk, Book)
    /\ ForeignKeyOk(author, Pks(Author))
    /\ ForeignKeyOk(language, Pks(Language))
    /\ Book' = Book \cup {[id |-> pk, title |-> title, author |-> author,
                           summary |-> summary, isbn |-> isbn,
                           language |-> language]}
    /\ response' = [op |-> "create", model |-> "Book", pk |-> pk]
    /\ UNCHANGED <<Genre, Language, Author, Book_genre, BookInstance>>

\* book.<field> = value; book.save()
SaveBook(pk, field, value) ==
    /\ field = "author" => ForeignKeyOk(value, Pks(Author))
    /\ field = "language" => ForeignKeyOk(value, Pks(Language))
    /\ \E b \in Book :
          /\ b.id = pk
          /\ Book' = (Book \ {b}) \cup {[b EXCEPT ![field] = value]}
    /\ response' = [op |-> "save", model |-> "Book", pk |-> pk]
    /\ UNCHANGED <<Genre, Language, Author, Book_genre, BookInstance>>

\* book.genre.add(genre)
AddGenre(book, genre) ==
    /\ book \in Pks(Book)
    /\ genre \in Pks(Genre)
    /\ Book_genre' = Book_genre \cup {[book_id |-> book, genre_id |-> genre]}
    /\ response' = [op |-> "add", model |-> "Book", pk |-> book]
    /\ UNCHANGED <<Genre, Language, Author, Book, BookInstance>>

\* book.genre.remove(genre)
RemoveGenre(book, genre) ==
    /\ [book_id |-> book, genre_id |-> genre] \in Book_genre
    /\ Book_genre' = Book_genre \ {[book_id |-> book, genre_id |-> genre]}
    /\ response' = [op |-> "remove", model |-> "Book", pk |-> book]
    /\ UNCHANGED <<Genre, Language, Author, Book, BookInstance>>

\* the book's rows of the join table go with it; its copies stay
DeleteBook(pk) ==
    /\ pk \in Pks(Book)
    /\ Book' = {b \in Book : b.id # pk}
    /\ Book_genre' = OnDelete(Book_genre_on_delete, Book_genre, "book_id", pk)
    /\ BookInstance' = OnDelete(BookInstance_book_on_delete, BookInstance, "book", pk)
    /\ response' = [op |-> "delete", model |-> "Book", pk |-> pk,
                    before |-> BookInstance]
    /\ UNCHANGED <<Genre, Language, Author>>

\* ---- BookInstance ---------------------------------------------------------
\* pk is the value uuid.uuid4 returned; `supplied` says whether the caller
\* gave a status.
CreateBookInstance(pk, book, imprint, due_back, supplied, status) ==
    /\ PrimaryKeyFree(pk, BookInstance)
    /\ ForeignKeyOk(book, Pks(Book))
    /\ StatusValid(StatusOrDefault(supplied, status))
    /\ BookInstance' = BookInstance \cup
           {[id |-> pk, book |-> book, imprint |-> imprint,
             due_back |-> due_back,
             status |-> StatusOrDefault(supplied, status)]}
    /\ response' = [op |-> "create", model |-> "BookInstance", pk |-> pk,
                    status_supplied |-> supplied]
    /\ UNCHANGED <<Genre, Language, Author, Book, Book_genre>>

\* book_instance.<field> = value; book_instance.save()
SaveBookInstance(pk, field, value) ==
    /\ field = "book" => ForeignKeyOk(value, Pks(Book))
    /\ field = "status" => StatusValid(value)
    /\ \E bi \in BookInstance :
          /\ bi.id = pk
          /\ BookInstance' = (BookInstance \ {bi}) \cup {[bi EXCEPT ![field] = value]}
    /\ response' = [op |-> "save", model |-> "BookInstance", pk |-> pk]
    /\ UNCHANGED <<Genre, Language, Author, Book, Book_genre>>

DeleteBookInstance(pk) ==
    /\ pk \in Pks(BookInstance)
    /\ BookInstance' = {bi \in BookInstance : bi.id # pk}
    /\ response' = [op |-> "delete", model |-> "BookInstance", pk |-> pk]
    /\ UNCHANGED <<Genre, Language, Author, Book, Book_genre>>

\* BookInstance.objects.all()
AllBookInstances(scan, nullsFirst) ==
    /\ scan \in ScanOrders(BookInstance)
    /\ response' = [op |-> "all", model |-> "BookInstance",
                    rows |-> OrderBy(scan, BookInstance_Meta_ordering, nullsFirst)]
    /\ UNCHANGED <<Genre, Language, Author, Book, Book_genre, BookInstance>>

\* str(book_instance)
StrBookInstance(pk) ==
    /\ \E bi \in BookInstance :
          /\ bi.id = pk
          /\ response' = [op |-> "str", model |-> "BookInstance", pk |-> pk,
                          value |-> BookInstance_str(bi)]
    /\ UNCHANGED <<Genre, Language, Author, Book, Book_genre, BookInstance>>

\* ---- next-state relations -------------------------------------------------
\* writes to Genre, Language and Author, and to a book's genre set
CatalogWrites ==
    \/ \E pk \in GenreIds : CreateGenre(pk)
    \/ \E pk \in GenreIds : DeleteGenre(pk)
    \/ \E pk \in LanguageIds : CreateLanguage(pk)
    \/ \E pk \in LanguageIds : DeleteLanguage(pk)
    \/ \E pk \in AuthorIds : CreateAuthor(pk)
    \/ \E pk \in AuthorIds : DeleteAuthor(pk)
    \/ \E b \in BookIds, g \in GenreIds : AddGenre(b, g)
    \/ \E b \in BookIds, g \in GenreIds : RemoveGenre(b, g)

\* writes to Book, its author and language drawn from the given sets
BookWrites(titles, authors, languages) ==
    \/ \E pk \in BookIds, t \in titles, a \in authors,
          s \in Summaries, i \in Isbns, l \in languages :
          CreateBook(pk, t, a, s, i, l)
    \/ \E pk \in BookIds, t \in titles : SaveBook(pk, "title", t)
    \/ \E pk \in BookIds, a \in authors : SaveBook(pk, "author", a)
    \/ \E pk \in BookIds, s \in Summaries : SaveBook(pk, "summary", s)
    \/ \E pk \in BookIds, i \in Isbns : SaveBook(pk, "isbn", i)
    \/ \E pk \in BookIds, l \in languages : SaveBook(pk, "language", l)
    \/ \E pk \in BookIds : DeleteBook(pk)

\* writes to BookInstance, its due date and status drawn from the given sets
CopyWrites(dates, supplieds, statuses) ==
    \/ \E pk \in Uuids, b \in BookIds \cup {NULL}, i \in Imprints,
          d \in dates, sup \in supplieds, st \in statuses :
          CreateBookInstance(pk, b, i, d, sup, st)
    \/ \E pk \in Uuids, b \in BookIds \cup {NULL} : SaveBookInstance(pk, "book", b)
    \/ \E pk \in Uuids, i \in Imprints : SaveBookInstance(pk, "imprint", i)
    \/ \E pk \in Uuids, d \in dates : SaveBookInstance(pk, "due_back", d)
    \/ \E pk \in Uuids, st \in statuses : SaveBookInstance(pk, "status", st)
    \/ \E pk \in Uuids : DeleteBookInstance(pk)

CopyReads ==
    \/ \E scan \in ScanOrders(BookInstance), nf \in BOOLEAN :
          AllBookInstances(scan, nf)
    \/ \E pk \in Uuids : StrBookInstance(pk)

\* The catalog: genres, languages, authors and books, with no copy.
NextCatalog ==
    \/ CatalogWrites
    \/ BookWrites(Titles, AuthorIds \cup {NULL}, LanguageIds \cup {NULL})

SpecCatalog == Init /\ [][NextCatalog]_vars

\* Books and their copies, every column of BookInstance, and the reads.
\* No author, language or genre is created, so a book has none.
NextCopies ==
    \/ BookWrites(Titles, {NULL}, {NULL})
    \/ CopyWrites(Dates \cup {NULL}, BOOLEAN, StatusInputs)
    \/ CopyReads

SpecCopies == Init /\ [][NextCopies]_vars

\* All five tables and every reference between them.  The columns that are
\* not references take one value: a book has one title, a copy is written
\* with no due date and the default status.
NextReferences ==
    \/ CatalogWrites
    \/ BookWrites({"Dune"}, AuthorIds \cup {NULL}, LanguageIds \cup {NULL})
    \/ CopyWrites({NULL}, {FALSE}, {status_default})

SpecReferences == Init /\ [][NextReferences]_vars

\* ---- properties -----------------------------------------------------------
IsDelete(model) == response.op = "delete" /\ response.model = model

\* the genres of a book in a set of join rows
GenresOf(links, book) == {l.genre_id : l \in {k \in links : k.book_id = book}}

\* C1: deleting an Author deletes no Book; every Book that referenced the
\* deleted Author is still stored with author NULL and with its title,
\* summary, isbn, language and genre set unchanged.
C1_DeleteAuthorKeepsBooks ==
    IsDelete("Author") =>
        /\ Pks(Book) = Pks(response.before)
        /\ \A b \in response.before :
              b.author = response.pk =>
                 /\ [b EXCEPT !.author = NULL] \in Book
                 /\ GenresOf(Book_genre, b.id) = GenresOf(response.links, b.id)

\* an author was deleted that a book with a language and a genre referenced
C1_Witness ==
    /\ IsDelete("Author")
    /\ \E b \in response.before :
          /\ b.author = response.pk
          /\ b.language # NULL
          /\ GenresOf(response.links, b.id) # {}

\* C4: deleting a Language deletes no Book; every Book that referenced the
\* deleted Language is still stored with language NULL and with its author
\* reference (and every other column) unchanged.
C4_DeleteLanguageKeepsBooks ==
    IsDelete("Language") =>
        /\ Pks(Book) = Pks(response.before)
        /\ \A b \in response.before :
              b.language = response.pk =>
                 /\ [b EXCEPT !.language = NULL] \in Book
                 /\ \A c \in Book : c.id = b.id => c.author = b.author

\* a language was deleted that a book with an author referenced
C4_Witness ==
    /\ IsDelete("Language")
    /\ \E b \in response.before : b.language = response.pk /\ b.author # NULL

\* C3: deleting a Genre leaves the set of Book records as it was, removes
\* the deleted Genre from every Book's genre set and leaves every other
\* association of every Book in place.
C3_DeleteGenreKeepsBooks ==
    IsDelete("Genre") =>
        /\ Book = response.before
        /\ \A b \in Book :
              GenresOf(Book_genre, b.id) =
                 GenresOf(response.links, b.id) \ {response.pk}
        /\ Book_genre \subseteq response.links

\* a genre was deleted from the genre set of a book that had another genre
C3_Witness ==
    /\ IsDelete("Genre")
    /\ \E b \in response.before :
          /\ response.pk \in GenresOf(response.links, b.id)
          /\ GenresOf(response.links, b.id) # {response.pk}

\* C2: deleting a Book deletes no BookInstance; every BookInstance that
\* referenced the deleted Book is still stored with the same id, imprint,
\* due_back and status, and with book NULL.
C2_DeleteBookKeepsCopies ==
    IsDelete("Book") =>
        /\ Pks(BookInstance) = Pks(response.before)
        /\ \A bi \in response.before :
              bi.book = response.pk => [bi EXCEPT !.book = NULL] \in BookInstance

\* a book was deleted that a dated copy on loan referenced, while another
\* copy did not reference it
C2_Witness ==
    /\ IsDelete("Book")
    /\ \E bi \in response.before :
          bi.book = response.pk /\ bi.due_back # NULL /\ bi.status = "o"
    /\ \E bi \in response.before : bi.book # response.pk

\* C5 as claimed: the status of every BookInstance is one of m, o, a, r.
C5_StatusIsACode ==
    \A bi \in BookInstance : bi.status \in {"m", "o", "a", "r"}

\* C5 as amended: the status of every BookInstance is one of m, o, a, r or
\* the empty string.
C5_StatusIsACodeOrBlank ==
    \A bi \in BookInstance : bi.status \in {"m", "o", "a", "r", ""}

\* a copy was saved with a blank status while another holds a code
C5_Witness ==
    /\ response.op = "save"
    /\ response.model = "BookInstance"
    /\ \E bi \in BookInstance : bi.id = response.pk /\ bi.status = ""
    /\ \E bi \in BookInstance : bi.status = "r"

\* C6: no two distinct BookInstance records have the same id.
C6_UniqueIds ==
    \A x \in BookInstance : \A y \in BookInstance : x.id = y.id => x = y

\* a copy was created while another copy was stored
C6_Witness ==
    /\ response.op = "create"
    /\ response.model = "BookInstance"
    /\ Cardinality(BookInstance) >= 2

\* C7: rendering a BookInstance never fails and yields its id combined with
\* the title of its Book.
C7_StrNeverFails ==
    (response.op = "str" /\ response.model = "BookInstance") =>
        /\ response.value.ok
        /\ \E bi \in BookInstance : \E b \in Book :
              /\ bi.id = response.pk
              /\ b.id = bi.book
              /\ response.value.text = <<bi.id, " (", b.title, ")">>

\* C8: a BookInstance created without a status has status "m".
C8_DefaultStatus ==
    (/\ response.op = "create"
     /\ response.model = "BookInstance"
     /\ ~response.status_supplied) =>
        /\ response.pk \in Pks(BookInstance)
        /\ \A bi \in BookInstance : bi.id = response.pk => bi.status = "m"

\* a copy of a book, with a due date, was created without a status
C8_Witness ==
    /\ response.op = "create"
    /\ response.model = "BookInstance"
    /\ ~response.status_supplied
    /\ \E bi \in BookInstance :
          bi.id = response.pk /\ bi.book # NULL /\ bi.due_back # NULL

\* C9: all() returns every stored BookInstance exactly once, and of two
\* returned records with a due_back the one with the earlier date comes
\* first.
C9_OrderedByDueBack ==
    (response.op = "all" /\ response.model = "BookInstance") =>
        LET rows == response.rows IN
        /\ Len(rows) = Cardinality(BookInstance)
        /\ {rows[i] : i \in 1..Len(rows)} = BookInstance
        /\ \A i \in 1..Len(rows) : \A j \in 1..Len(rows) :
              (/\ rows[i].due_back # NULL
               /\ rows[j].due_back # NULL
               /\ rows[i].due_back < rows[j].due_back) => i < j

\* all() returned two copies with different due dates
C9_Witness ==
    /\ response.op = "all"
    /\ response.model = "BookInstance"
    /\ Len(response.rows) = 2
    /\ response.rows[1].due_back # NULL
    /\ response.rows[1].due_back < response.rows[2].due_back

\* C10: every non-null Book.author names a stored Author, every non-null
\* Book.language a stored Language, every genre of a Book a stored Genre,
\* and every non-null BookInstance.book a stored Book.
C10_ReferentialIntegrity ==
    /\ \A b \in Book : b.author # NULL => b.author \in Pks(Author)
    /\ \A b \in Book : b.language # NULL => b.language \in Pks(Language)
    /\ \A l \in Book_genre : l.book_id \in Pks(Book) /\ l.genre_id \in Pks(Genre)
    /\ \A bi \in BookInstance : bi.book # NULL => bi.book \in Pks(Book)

\* a book with a copy was deleted while another book, with an author, a
\* language, a genre and a copy, stays
C10_Witness ==
    /\ IsDelete("Book")
    /\ \E bi \in response.before : bi.book = response.pk
    /\ \E b \in Book :
          /\ b.author # NULL
          /\ b.language # NULL
          /\ GenresOf(Book_genre, b.id) # {}
          /\ \E bi \in BookInstance : bi.book = b.id

====
